---- MODULE Spec2Model ----
(***************************************************************************)
(* Ekot PWA (app.js v2.1.6): the day-scoped broadcast store, the adaptive  *)
(* poll loop and the playback controller with its audio-focus keep-alive   *)
(* timer, as one state machine.                                            *)
(*                                                                         *)
(* The program is single-threaded: every action below is one handler (a    *)
(* click, a media-session action, an audio event, a timer callback, the    *)
(* continuation of an awaited fetch) run to completion.  The browser is    *)
(* the environment: it owns the set of pending timers, the two audio       *)
(* elements, the calendar and the network.                                 *)
(***************************************************************************)
EXTENDS Integers, Sequences, FiniteSets

\* ------------------------------------------------------------------ bounds

\* Local days are numbered 1..MaxDay; the app starts on day 1.
MaxDay == 2

\* Distinct publish timestamps within one local day.
TsPerDay == 2

\* Time passes in steps of AUDIO_FOCUS_TIMEOUT / TicksPerTimeout.
TicksPerTimeout == 3

\* The longest audio source is MaxDuration seconds long.
MaxDuration == 40

\* ----------------------------------------------------------- configuration

\* null, for currentSlot and for a slot lookup that finds nothing
None == "none"

\* A timer handle field holding null; setTimeout handles are positive.
NoTimer == 0

\* audioPlayer.duration while no metadata is loaded; known durations are >= 0.
NaN == -1

SLOTS ==
    << [time |-> "08:00", pollStart |-> [hour |-> 8,  minute |-> 20]],
       [time |-> "12:30", pollStart |-> [hour |-> 13, minute |-> 0]],
       [time |-> "16:45", pollStart |-> [hour |-> 17, minute |-> 5]],
       [time |-> "17:45", pollStart |-> [hour |-> 18, minute |-> 10]] >>

POLL_ACTIVE == 60000

POLL_EXTENDED == 300000

POLL_IDLE == 1800000

ACTIVE_WINDOW == 10

EXTENDED_WINDOW == 30

AUDIO_FOCUS_TIMEOUT == 900000

\* the seconds the skip buttons and the previous/next track actions skip
SKIP_STEP == 15

SlotIdx == 1..Len(SLOTS)

SlotTimes == {SLOTS[i].time : i \in SlotIdx}

\* ------------------------------------------------------- dates, timestamps

\* A publish timestamp is an instant; the instants of local day d are
\* d*TsPerDay .. d*TsPerDay + TsPerDay - 1 (all > 0, as epoch milliseconds of
\* a real feed item are).
DayTimestamps(d) == {d * TsPerDay + k : k \in 0..(TsPerDay - 1)}

\* srDateToStockholmDate: the local calendar day an instant falls on.
srDateToStockholmDate(ts) == ts \div TsPerDay

\* ------------------------------------------------------------------- state

VARIABLES
    broadcasts,        \* state.broadcasts: an object keyed by slot time
    currentSlot,       \* state.currentSlot
    lastFetchDate,     \* state.lastFetchDate
    pollTimer,         \* state.pollTimer: a timer handle or NoTimer
    audioFocusTimer,   \* state.audioFocusTimer: a timer handle or NoTimer
    audioSrc,          \* elements.audioPlayer.src ("" = nothing loaded)
    audioPaused,       \* elements.audioPlayer.paused
    silenceSrc,        \* elements.silencePlayer.src
    currentTime,       \* elements.audioPlayer.currentTime, in seconds
    duration,          \* elements.audioPlayer.duration, in seconds, or NaN
    shown,             \* history: the status message the latest handler showed
    timers,            \* browser: the pending setTimeout timers
    today,             \* environment: the current local day
    loopFetches,       \* fetches in flight awaited by init() or by the poll callback
    dayFetches,        \* fetches in flight started by the once-a-minute day check
    resetCount,        \* history: runs of resetForNewDay since the last day crossing
    call,              \* history: the latest call recorded by a function specification
    pausedFor,         \* history: time spent in Paused since it was entered, in ms
    clock,             \* environment: the local time of day, in minutes since
                       \* midnight, where a specification follows it
    worker             \* the service worker: its phase, the Cache Storage, the
                       \* cache writes under way, the latest request answered

appVars == <<broadcasts, currentSlot, lastFetchDate, pollTimer, audioFocusTimer,
             audioSrc, audioPaused, silenceSrc, currentTime, duration, shown,
             timers, resetCount>>

vars == <<broadcasts, currentSlot, lastFetchDate, pollTimer, audioFocusTimer,
          audioSrc, audioPaused, silenceSrc, currentTime, duration, shown, timers,
          today, loopFetches, dayFetches, resetCount, call, pausedFor, clock, worker>>

\* The program state as a handler finds it, as one record, so that handlers
\* compose as functions.  showStatus writes the message into shown.
St ==
    [broadcasts |-> broadcasts, currentSlot |-> currentSlot,
     lastFetchDate |-> lastFetchDate, pollTimer |-> pollTimer,
     audioFocusTimer |-> audioFocusTimer, audioSrc |-> audioSrc,
     audioPaused |-> audioPaused, silenceSrc |-> silenceSrc,
     currentTime |-> currentTime, duration |-> duration,
     shown |-> "", timers |-> timers,
     resetCount |-> resetCount]

\* The handler's result r becomes the next state.
Commit(s) ==
    \E r \in {s} :
        /\ broadcasts' = r.broadcasts
        /\ currentSlot' = r.currentSlot
        /\ lastFetchDate' = r.lastFetchDate
        /\ pollTimer' = r.pollTimer
        /\ audioFocusTimer' = r.audioFocusTimer
        /\ audioSrc' = r.audioSrc
        /\ audioPaused' = r.audioPaused
        /\ silenceSrc' = r.silenceSrc
        /\ currentTime' = r.currentTime
        /\ duration' = r.duration
        /\ shown' = r.shown
        /\ timers' = r.timers
        /\ resetCount' = r.resetCount

\* {}: an object (a function on its keys) with no key
EmptyStore == [t \in {} |-> None]

Has(bc, t) == t \in DOMAIN bc

\* -------------------------------------------------------------- the feed

\* A title is the sequence of its words; the slot labels are words.
\* String.prototype.includes: the label occurs in the title.
includes(title, label) == \E k \in 1..Len(title) : title[k] = label

\* The title of the broadcast of a slot, as the feed words it.
TitleOf(label) == <<"Ekot", label>>

\* extractSlotFromTitle returns the first configured slot whose label the
\* title includes, or None.
RECURSIVE extractScan(_, _)
extractScan(i, title) ==
    IF i > Len(SLOTS) THEN None
    ELSE IF includes(title, SLOTS[i].time) THEN SLOTS[i].time
    ELSE extractScan(i + 1, title)

\* extractSlotFromTitle that returns the label occurring first in the title
extractSlotFromTitle_FirstInTitle(title) ==
    LET hits == {k \in 1..Len(title) : title[k] \in SlotTimes}
    IN  IF hits = {} THEN None
        ELSE title[CHOOSE k \in hits : \A j \in hits : k <= j]

extractSlotFromTitle(title) == extractScan(1, title)

\* parseApiResponse: podfiles is the response's item list, todayStr the local
\* day at the time of parsing.  Items of another day or matching no slot are
\* skipped; a later item of the same slot replaces an earlier one.
RECURSIVE parseLoop(_, _, _, _)
parseLoop(i, podfiles, todayStr, acc) ==
    IF i > Len(podfiles) THEN acc
    ELSE LET podfile == podfiles[i]
             itemDate == srDateToStockholmDate(podfile.publishdateutc)
             slot == extractSlotFromTitle(podfile.title)
         IN  IF itemDate # todayStr \/ slot = None
             THEN parseLoop(i + 1, podfiles, todayStr, acc)
             ELSE parseLoop(i + 1, podfiles, todayStr,
                     [t \in DOMAIN acc \cup {slot} |->
                         IF t = slot
                         THEN [title |-> podfile.title,
                               timestamp |-> podfile.publishdateutc,
                               audioUrl |-> podfile.url]
                         ELSE acc[t]])

\* parseApiResponse without the test that an item is from today
RECURSIVE parseLoop_AnyDay(_, _, _, _)
parseLoop_AnyDay(i, podfiles, todayStr, acc) ==
    IF i > Len(podfiles) THEN acc
    ELSE LET podfile == podfiles[i]
             slot == extractSlotFromTitle(podfile.title)
         IN  IF slot = None
             THEN parseLoop_AnyDay(i + 1, podfiles, todayStr, acc)
             ELSE parseLoop_AnyDay(i + 1, podfiles, todayStr,
                     [t \in DOMAIN acc \cup {slot} |->
                         IF t = slot
                         THEN [title |-> podfile.title,
                               timestamp |-> podfile.publishdateutc,
                               audioUrl |-> podfile.url]
                         ELSE acc[t]])

parseApiResponse_AnyDay(podfiles, todayStr) ==
    parseLoop_AnyDay(1, podfiles, todayStr, EmptyStore)

parseApiResponse(podfiles, todayStr) == parseLoop(1, podfiles, todayStr, EmptyStore)

\* A merge that keeps the stored entry unless the incoming one is newer
\* a merge that replaces the store by the incoming mapping
ObjectAssign_Replaces(target, source) == source

ObjectAssign_KeepsNewer(target, source) ==
    [t \in DOMAIN target \cup DOMAIN source |->
        IF t \in DOMAIN source
           /\ (t \notin DOMAIN target \/ source[t].timestamp > target[t].timestamp)
        THEN source[t] ELSE target[t]]

\* Object.assign(state.broadcasts, newBroadcasts)
ObjectAssign(target, source) ==
    [t \in DOMAIN target \cup DOMAIN source |->
        IF t \in DOMAIN source THEN source[t] ELSE target[t]]

\* ------------------------------------------------------------- the store

RECURSIVE latestScan(_, _, _, _)
latestScan(i, bc, latest, latestTimestamp) ==
    IF i > Len(SLOTS) THEN latest
    ELSE LET slot == SLOTS[i]
         IN  IF Has(bc, slot.time) /\ bc[slot.time].timestamp > latestTimestamp
             THEN latestScan(i + 1, bc, slot.time, bc[slot.time].timestamp)
             ELSE latestScan(i + 1, bc, latest, latestTimestamp)

\* findLatestBroadcast comparing with >= instead of >
RECURSIVE latestScan_NotStrict(_, _, _, _)
latestScan_NotStrict(i, bc, latest, latestTimestamp) ==
    IF i > Len(SLOTS) THEN latest
    ELSE LET slot == SLOTS[i]
         IN  IF Has(bc, slot.time) /\ bc[slot.time].timestamp >= latestTimestamp
             THEN latestScan_NotStrict(i + 1, bc, slot.time, bc[slot.time].timestamp)
             ELSE latestScan_NotStrict(i + 1, bc, latest, latestTimestamp)

findLatestBroadcast_NotStrict(bc) == latestScan_NotStrict(1, bc, None, 0)

findLatestBroadcast(bc) == latestScan(1, bc, None, 0)

\* CONFIG.SLOTS.map(s => s.time)
slotTimes == [i \in SlotIdx |-> SLOTS[i].time]

\* Array.prototype.indexOf, for an element the sequence holds
indexOf(seq, x) == CHOOSE i \in 1..Len(seq) :
                       seq[i] = x /\ \A j \in 1..(i - 1) : seq[j] # x

\* the ring left as configured whatever the latest broadcast is
getSortedSlots_NoRotation(bc) ==
    LET ring == slotTimes
    IN  <<ring[1], ring[4], ring[2], ring[3]>>

\* getSortedSlots: the ring of slots in chronological order starting from the
\* latest broadcast's slot, laid out on the grid row by row.
getSortedSlots(bc) ==
    LET latestSlot == findLatestBroadcast(bc)
        index == indexOf(slotTimes, latestSlot)
        ring == IF latestSlot # None
                THEN SubSeq(slotTimes, index, Len(slotTimes))
                     \o SubSeq(slotTimes, 1, index - 1)
                ELSE slotTimes
    IN  <<ring[1], ring[4], ring[2], ring[3]>>

RECURSIVE pollScan(_, _, _)
pollScan(i, currentMinutes, bc) ==
    IF i > Len(SLOTS) THEN POLL_IDLE
    ELSE LET slot == SLOTS[i]
             pollStartMinutes == slot.pollStart.hour * 60 + slot.pollStart.minute
             diff == currentMinutes - pollStartMinutes
         IN  IF ~Has(bc, slot.time) /\ diff >= 0 /\ diff <= ACTIVE_WINDOW
             THEN POLL_ACTIVE
             ELSE IF ~Has(bc, slot.time) /\ diff > ACTIVE_WINDOW
                                          /\ diff <= EXTENDED_WINDOW
             THEN POLL_EXTENDED
             ELSE pollScan(i + 1, currentMinutes, bc)

\* calculatePollInterval with the active window's upper end excluded
RECURSIVE pollScan_OpenWindow(_, _, _)
pollScan_OpenWindow(i, currentMinutes, bc) ==
    IF i > Len(SLOTS) THEN POLL_IDLE
    ELSE LET slot == SLOTS[i]
             pollStartMinutes == slot.pollStart.hour * 60 + slot.pollStart.minute
             diff == currentMinutes - pollStartMinutes
         IN  IF ~Has(bc, slot.time) /\ diff >= 0 /\ diff < ACTIVE_WINDOW
             THEN POLL_ACTIVE
             ELSE IF ~Has(bc, slot.time) /\ diff >= ACTIVE_WINDOW
                                          /\ diff <= EXTENDED_WINDOW
             THEN POLL_EXTENDED
             ELSE pollScan_OpenWindow(i + 1, currentMinutes, bc)

calculatePollInterval_OpenWindow(currentMinutes, bc) ==
    pollScan_OpenWindow(1, currentMinutes, bc)

calculatePollInterval(currentMinutes, bc) == pollScan(1, currentMinutes, bc)

\* ------------------------------------------------------- browser timers

TimerIds(s) == {t.id : t \in s.timers}

\* setTimeout returns a handle no live timer and no handle still held has.
FreshTimerId(s) ==
    LET used == TimerIds(s) \cup ({s.pollTimer, s.audioFocusTimer} \ {NoTimer})
    IN  CHOOSE n \in 1..(Cardinality(used) + 1) :
            /\ n \notin used
            /\ \A m \in 1..(n - 1) : m \in used

clearTimeout(s, handle) == [s EXCEPT !.timers = {t \in @ : t.id # handle}]

\* ------------------------------------------------------------- playback

\* stopAudioFocusKeepAlive without "state.audioFocusTimer = null"
stopAudioFocusKeepAlive_KeepsHandle(s) ==
    [clearTimeout(s, s.audioFocusTimer) EXCEPT !.silenceSrc = ""]

stopAudioFocusKeepAlive(s) ==
    LET s1 == IF s.audioFocusTimer # NoTimer
              THEN [clearTimeout(s, s.audioFocusTimer) EXCEPT !.audioFocusTimer = NoTimer]
              ELSE s
    IN  [s1 EXCEPT !.silenceSrc = ""]

\* startAudioFocusKeepAlive without its leading stopAudioFocusKeepAlive()
startAudioFocusKeepAlive_NoCancel(s) ==
    LET id == FreshTimerId(s)
    IN  [s EXCEPT !.silenceSrc = "assets/silence.wav",
                  !.timers = @ \cup {[id |-> id, kind |-> "focus",
                                      delay |-> AUDIO_FOCUS_TIMEOUT]},
                  !.audioFocusTimer = id]

startAudioFocusKeepAlive(s) ==
    LET s1 == stopAudioFocusKeepAlive(s)
        id == FreshTimerId(s1)
    IN  [s1 EXCEPT !.silenceSrc = "assets/silence.wav",
                   !.timers = @ \cup {[id |-> id, kind |-> "focus",
                                       delay |-> AUDIO_FOCUS_TIMEOUT]},
                   !.audioFocusTimer = id]

\* The playback status of s: Playing while the audio element plays, Paused
\* while a slot is current and its source is loaded but not playing.
StatusOf(s) ==
    IF ~s.audioPaused THEN "Playing"
    ELSE IF s.audioSrc # "" /\ s.currentSlot # None THEN "Paused"
    ELSE "Stopped"

\* audioPlayer.play(): accepted says whether the AudioSurface starts playback.
\* With nothing loaded there is nothing to start.  On rejection the element
\* stays paused.
audioPlay(s, accepted) ==
    IF s.audioSrc # "" /\ accepted
    THEN [s EXCEPT !.audioPaused = FALSE,
                   \* playback that has ended restarts from the beginning
                   !.currentTime = IF s.duration # NaN /\ @ = s.duration THEN 0 ELSE @]
    ELSE s

PlayStarts(s, accepted) == s.audioSrc # "" /\ accepted

\* stopPlayback without its stopAudioFocusKeepAlive()
stopPlayback_KeepsFocusTimer(s) ==
    [s EXCEPT !.audioPaused = TRUE, !.audioSrc = "", !.currentSlot = None,
              !.currentTime = 0, !.duration = NaN]

stopPlayback(s) ==
    LET s1 == stopAudioFocusKeepAlive(s)
    IN  [s1 EXCEPT !.audioPaused = TRUE, !.audioSrc = "", !.currentSlot = None,
                   !.currentTime = 0, !.duration = NaN]

\* playBroadcast that tests only for the entry, not for its audioUrl
playBroadcast_NoUrlCheck(s, slot, accepted) ==
    IF ~Has(s.broadcasts, slot)
    THEN [s EXCEPT !.shown = "Ingen sandning tillganglig"]
    ELSE LET s1 == stopAudioFocusKeepAlive(s)
             s2 == [s1 EXCEPT !.currentSlot = slot,
                              !.audioSrc = s.broadcasts[slot].audioUrl,
                              !.audioPaused = TRUE,
                              !.currentTime = 0, !.duration = NaN]
             s3 == audioPlay(s2, accepted)
         IN  IF PlayStarts(s2, accepted) THEN s3
             ELSE [s3 EXCEPT !.shown = "Kunde inte spela upp ljudet"]

\* playBroadcast without its stopAudioFocusKeepAlive()
playBroadcast_KeepsFocusTimer(s, slot, accepted) ==
    IF ~Has(s.broadcasts, slot)
    THEN [s EXCEPT !.shown = "Ingen sandning tillganglig"]
    ELSE IF s.broadcasts[slot].audioUrl = ""
    THEN [s EXCEPT !.shown = "Ingen sandning tillganglig"]
    ELSE LET s2 == [s EXCEPT !.currentSlot = slot,
                             !.audioSrc = s.broadcasts[slot].audioUrl,
                             !.audioPaused = TRUE,
                             !.currentTime = 0, !.duration = NaN]
             s3 == audioPlay(s2, accepted)
         IN  IF PlayStarts(s2, accepted) THEN s3
             ELSE [s3 EXCEPT !.shown = "Kunde inte spela upp ljudet"]

playBroadcast(s, slot, accepted) ==
    IF ~Has(s.broadcasts, slot)
    THEN [s EXCEPT !.shown = "Ingen sandning tillganglig"]
    ELSE IF s.broadcasts[slot].audioUrl = ""
    THEN [s EXCEPT !.shown = "Ingen sandning tillganglig"]
    ELSE LET broadcast == s.broadcasts[slot]
             s1 == stopAudioFocusKeepAlive(s)
             \* assigning src loads the new source, which pauses the element
             s2 == [s1 EXCEPT !.currentSlot = slot,
                              !.audioSrc = broadcast.audioUrl,
                              !.audioPaused = TRUE,
                              !.currentTime = 0, !.duration = NaN]
             s3 == audioPlay(s2, accepted)
         IN  IF PlayStarts(s2, accepted) THEN s3
             ELSE [s3 EXCEPT !.shown = "Kunde inte spela upp ljudet"]

togglePlayPause(s, accepted) ==
    IF s.audioSrc = ""
    THEN LET latestSlot == findLatestBroadcast(s.broadcasts)
         IN  IF latestSlot # None
             THEN playBroadcast(s, latestSlot, accepted)
             ELSE [s EXCEPT !.shown = "Inga sandningar idag annu"]
    ELSE IF s.audioPaused
    THEN LET s1 == stopAudioFocusKeepAlive(s)
             s2 == audioPlay(s1, accepted)
         IN  IF PlayStarts(s1, accepted) THEN s2
             ELSE [s2 EXCEPT !.shown = "Kunde inte spela upp ljudet"]
    ELSE startAudioFocusKeepAlive([s EXCEPT !.audioPaused = TRUE])

Max(a, b) == IF a >= b THEN a ELSE b

Min(a, b) == IF a <= b THEN a ELSE b

\* elements.audioPlayer.duration || 0
DurationOrZero(d) == IF d = NaN \/ d = 0 THEN 0 ELSE d

\* skipTime without the Math.min against the duration
skipTime_NoUpperClamp(s, seconds) ==
    IF s.audioSrc # ""
    THEN [s EXCEPT !.currentTime = Max(0, s.currentTime + seconds)]
    ELSE s

skipTime(s, seconds) ==
    IF s.audioSrc # ""
    THEN [s EXCEPT !.currentTime =
             Max(0, Min(DurationOrZero(s.duration), s.currentTime + seconds))]
    ELSE s

\* getSeekPercent: the pointer's place along the progress bar, in percent of
\* its width (below 0 left of the bar, above 100 right of it), clamped.
getSeekPercent(pointer) == Max(0, Min(100, pointer))

\* seekTo / onSeekEnd: the progress bar sets the position.
seekTo(s, pointer) ==
    IF s.audioSrc = "" \/ DurationOrZero(s.duration) = 0
    THEN s
    ELSE [s EXCEPT !.currentTime = (getSeekPercent(pointer) * s.duration) \div 100]

\* the media-session 'seekto' handler; details.seekTime may be absent
mediaSessionSeekTo(s, details) ==
    IF "seekTime" \in DOMAIN details /\ DurationOrZero(s.duration) # 0
    THEN [s EXCEPT !.currentTime = details.seekTime]
    ELSE s

\* navigator.mediaSession action handlers
mediaSessionPlay(s, accepted) == audioPlay(stopAudioFocusKeepAlive(s), accepted)

mediaSessionPause(s) == startAudioFocusKeepAlive([s EXCEPT !.audioPaused = TRUE])

\* audioPlayer 'ended': the element has paused itself at the end of the source
onEnded_DropsBroadcast(s) ==
    [s EXCEPT !.audioPaused = TRUE, !.currentSlot = None,
              !.broadcasts = [t \in DOMAIN @ \ {s.currentSlot} |-> @[t]]]

onEnded(s) == [s EXCEPT !.audioPaused = TRUE, !.currentSlot = None]

\* an 'error' listener that only reports
onError_OnlyReports(s) == [s EXCEPT !.shown = "Fel vid uppspelning"]

\* audioPlayer 'error'
onError(s) == stopPlayback([s EXCEPT !.shown = "Fel vid uppspelning"])

\* the audio-focus timer's callback
onAudioFocusTimeout(s) == stopPlayback(stopAudioFocusKeepAlive(s))

\* ------------------------------------------------------- day and fetch

\* resetForNewDay that empties the store but leaves the playback session alone
resetForNewDay_KeepsPlayback(s, currentDate) ==
    [s EXCEPT !.broadcasts = EmptyStore,
              !.lastFetchDate = currentDate,
              !.resetCount = @ + 1]

resetForNewDay(s, currentDate) ==
    stopPlayback([s EXCEPT !.broadcasts = EmptyStore,
                           !.currentSlot = None,
                           !.lastFetchDate = currentDate,
                           !.resetCount = @ + 1])

DayChanged(s, currentDate) == s.lastFetchDate # currentDate

checkDayChange_Unconditional(s, currentDate) == resetForNewDay(s, currentDate)

checkDayChange(s, currentDate) ==
    IF DayChanged(s, currentDate) THEN resetForNewDay(s, currentDate) ELSE s

updateBroadcastsResume_ClearsOnFailure(s, response, currentDate) ==
    IF ~response.ok
    THEN [s EXCEPT !.shown = "Kunde inte hamta sandningar",
                   !.broadcasts = EmptyStore]
    ELSE LET newBroadcasts == parseApiResponse(response.podfiles, currentDate)
         IN  [s EXCEPT !.broadcasts = ObjectAssign(@, newBroadcasts),
                       !.lastFetchDate = currentDate]

\* updateBroadcasts after the awaited fetchBroadcasts.  response.ok = FALSE is
\* a network or HTTP failure (fetchBroadcasts shows the error and returns
\* null); otherwise response.podfiles is parsed and merged.

updateBroadcastsResume(s, response, currentDate) ==
    IF ~response.ok
    THEN [s EXCEPT !.shown = "Kunde inte hamta sandningar"]
    ELSE LET newBroadcasts == parseApiResponse(response.podfiles, currentDate)
         IN  [s EXCEPT !.broadcasts = ObjectAssign(@, newBroadcasts),
                       !.lastFetchDate = currentDate]

schedulePoll(s, currentMinutes) ==
    LET s1 == IF s.pollTimer # NoTimer THEN clearTimeout(s, s.pollTimer) ELSE s
        interval == calculatePollInterval(currentMinutes, s1.broadcasts)
        id == FreshTimerId([s1 EXCEPT !.pollTimer = NoTimer])
    IN  [s1 EXCEPT !.timers = @ \cup {[id |-> id, kind |-> "poll",
                                       delay |-> interval]},
                   !.pollTimer = id]

\* ------------------------------------------------------- the environment

\* Times of day (minutes since local midnight) getStockholmHourMinute is
\* sampled at: 08:25, 08:35 and 08:55, which lie in the active window, in the
\* extended window and after both windows of the first slot.
ClockSamples == {8 * 60 + 25, 8 * 60 + 35, 8 * 60 + 55}

\* The item the upstream feed carries for slot i of day d.
FeedItem(d, i) ==
    [title |-> TitleOf(SLOTS[i].time),
     publishdateutc |-> d * TsPerDay + ((i - 1) % TsPerDay),
     url |-> SLOTS[i].time]

\* The feed lists the newest item first.
DayItems(d) == [k \in SlotIdx |-> FeedItem(d, Len(SLOTS) + 1 - k)]

\* The response served on day d when the slots in published have appeared
\* that day: those items, then the items of the day before.
FeedResponse(d, published) ==
    LET Listed(p) == \E label \in published : includes(p.title, label)
    IN  [ok |-> TRUE,
         podfiles |-> SelectSeq(DayItems(d), Listed)
                      \o (IF d > 1 THEN DayItems(d - 1) ELSE <<>>)]

FetchFailure == [ok |-> FALSE, podfiles |-> <<>>]

\* What a fetch that completes on day d may deliver: a failure, a response
\* served that day, or one served just before midnight of the day before.
Responses(d) ==
    {FetchFailure}
    \cup {FeedResponse(d, published) : published \in SUBSET SlotTimes}
    \cup (IF d > 1 THEN {FeedResponse(d - 1, SlotTimes)} ELSE {})

\* ------------------------------------------------------------------ Init

NoCall == [fn |-> "none"]

\* ---------------------------------------------------- the service worker

CACHE_NAME == "ekot-pwa-v2.1.4"

\* The cache of the version before.
OLD_CACHE_NAME == "ekot-pwa-v2.1.0"

\* The app shell, for short: one of its files.
APP_SHELL == {"./app.js"}

NoResponse == "undefined"

NoRequest == [host |-> "none"]

\* The worker script has been fetched and parsed; the version before has left
\* its cache, with the app shell and an API response.
WorkerStart ==
    [phase |-> "parsed",
     caches |-> [name \in {OLD_CACHE_NAME} |->
                    [key \in {"./app.js", "sr-api-latest"} |-> "old"]],
     keys |-> {},
     puts |-> {},
     last |-> NoRequest]

\* cache.put(key, body) on the cache of that name, which caches.open creates
\* when there is none.
CachePut(caches, name, key, body) ==
    [n \in DOMAIN caches \cup {name} |->
        IF n = name
        THEN [k \in (IF n \in DOMAIN caches THEN DOMAIN caches[n] ELSE {}) \cup {key} |->
                 IF k = key THEN body ELSE caches[n][k]]
        ELSE caches[n]]

\* caches.match(key): the entry of some cache that has one, or undefined.
CacheMatches(caches, key) ==
    {caches[n][key] : n \in {m \in DOMAIN caches : key \in DOMAIN caches[m]}}

\* 'install': the app shell is added to the current cache.
swInstall(w) ==
    [w EXCEPT !.phase = "installed",
              !.caches = [n \in DOMAIN @ \cup {CACHE_NAME} |->
                             IF n = CACHE_NAME
                             THEN [k \in APP_SHELL |-> "shell"]
                             ELSE @[n]]]

\* an activation that lists nothing for deletion
swActivate_KeepsOld(w) == [w EXCEPT !.phase = "activating", !.keys = {}]

\* 'activate', up to caches.keys(): the names to delete are listed.
swActivate(w) ==
    [w EXCEPT !.phase = "activating",
              !.keys = {key \in DOMAIN w.caches : key # CACHE_NAME}]

\* caches.delete(key) for one of the listed names
swDelete(w, key) ==
    [w EXCEPT !.keys = @ \ {key},
              !.caches = [n \in DOMAIN @ \ {key} |-> @[n]]]

\* Promise.all has settled: clients.claim(), the worker is active.
swActivated(w) == [w EXCEPT !.phase = "active"]

\* What the 'fetch' listener answers with, and the cache write it starts.
\* outcome is what the network gives: an OK response, a response that is not
\* OK, or a failure (fetch rejects).  cached is what caches.match returns.
Answer(w, request, outcome, source, response, put) ==
    [w EXCEPT !.puts = @ \cup put,
              !.last = [host |-> request.host, key |-> request.key,
                        method |-> request.method, outcome |-> outcome,
                        source |-> source, response |-> response,
                        caches |-> w.caches]]

FromNetwork(outcome) ==
    IF outcome.kind = "fail" THEN "network error" ELSE outcome.body

\* a 'fetch' listener that answers API requests from the cache when it can
swFetch_ApiCacheFirst(w, request, outcome, cached) ==
    IF request.host = "api.sr.se" /\ cached # NoResponse
    THEN Answer(w, request, outcome, "cache", cached, {})
    ELSE Answer(w, request, outcome, "network", FromNetwork(outcome), {})

swFetch(w, request, outcome, cached) ==
    IF request.host = "api.sr.se"
    THEN IF outcome.kind = "fail"
         THEN Answer(w, request, outcome, "cache", cached, {})
         ELSE Answer(w, request, outcome, "network", outcome.body,
                     IF outcome.kind = "ok"
                     THEN {[key |-> "sr-api-latest", body |-> outcome.body]}
                     ELSE {})
    ELSE IF request.host = "static-cdn.sr.se"
    THEN Answer(w, request, outcome, "network", FromNetwork(outcome), {})
    ELSE IF cached # NoResponse
    THEN Answer(w, request, outcome, "cache", cached, {})
    ELSE Answer(w, request, outcome, "network", FromNetwork(outcome),
                IF outcome.kind = "ok" /\ request.method = "GET"
                THEN {[key |-> request.key, body |-> outcome.body]}
                ELSE {})

\* caches.open(CACHE_NAME).then(cache => cache.put(key, clone)) settles
swPut(w, put) ==
    [w EXCEPT !.puts = @ \ {put},
              !.caches = CachePut(@, CACHE_NAME, put.key, put.body)]

\* The time of day the page is opened at: 08:00, before the first slot's
\* pollStart.
ClockStart == 8 * 60

\* init() has run up to its await: listeners and the day-check interval are set
\* up, lastFetchDate is today, and updateBroadcasts(true) is in flight.
InitWith(bc) ==
    /\ broadcasts = bc
    /\ currentSlot = None
    /\ today = 1
    /\ lastFetchDate = today
    /\ pollTimer = NoTimer
    /\ audioFocusTimer = NoTimer
    /\ audioSrc = ""
    /\ audioPaused = TRUE
    /\ silenceSrc = ""
    /\ currentTime = 0
    /\ duration = NaN
    /\ shown = ""
    /\ timers = {}
    /\ loopFetches = 1
    /\ dayFetches = 0
    /\ resetCount = 0
    /\ call = NoCall
    /\ pausedFor = 0
    /\ clock = ClockStart
    /\ worker = WorkerStart

Init == InitWith(EmptyStore)

envUnchanged == UNCHANGED <<today, loopFetches, dayFetches, call, pausedFor, clock, worker>>

\* --------------------------------------------------------------- actions

\* A click on a tile; renderTiles attaches the listener to active tiles only.
TileClick ==
    \E slot \in SlotTimes, accepted \in BOOLEAN :
        /\ Has(broadcasts, slot)
        /\ Commit(playBroadcast(St, slot, accepted))
        /\ envUnchanged

\* A click on the play/pause button.
ToggleClick ==
    \E accepted \in BOOLEAN :
        /\ Commit(togglePlayPause(St, accepted))
        /\ envUnchanged

MediaPlay ==
    \E accepted \in BOOLEAN :
        /\ Commit(mediaSessionPlay(St, accepted))
        /\ envUnchanged

MediaPause ==
    /\ Commit(mediaSessionPause(St))
    /\ envUnchanged

MediaStop ==
    /\ Commit(stopPlayback(St))
    /\ envUnchanged

\* Playback reaches the end of the loaded source.
AudioEnded ==
    /\ audioSrc # ""
    /\ ~audioPaused
    /\ Commit(onEnded(St))
    /\ envUnchanged

\* The loaded source fails to load or decode.
AudioError ==
    /\ audioSrc # ""
    /\ Commit(onError(St))
    /\ envUnchanged

\* The audio-focus timer fires: the browser drops it and runs the callback.
FocusTimerFire ==
    \E t \in timers :
        /\ t.kind = "focus"
        /\ Commit(onAudioFocusTimeout([St EXCEPT !.timers = @ \ {t}]))
        /\ envUnchanged

\* A poll callback that calls schedulePoll() before awaiting updateBroadcasts()
PollTimerFire_RearmsFirst ==
    \E t \in timers, currentMinutes \in ClockSamples :
        /\ t.kind = "poll"
        /\ Commit(checkDayChange(
               schedulePoll([St EXCEPT !.timers = @ \ {t}], currentMinutes), today))
        /\ loopFetches' = loopFetches + 1
        /\ UNCHANGED <<today, dayFetches, call, pausedFor, clock, worker>>

PollTimerFire_NoDayCheck ==
    \E t \in timers :
        /\ t.kind = "poll"
        /\ Commit([St EXCEPT !.timers = @ \ {t}])
        /\ loopFetches' = loopFetches + 1
        /\ UNCHANGED <<today, dayFetches, call, pausedFor, clock, worker>>

\* The poll timer fires: the callback runs updateBroadcasts() up to its await.
PollTimerFire ==
    \E t \in timers :
        /\ t.kind = "poll"
        /\ Commit(checkDayChange([St EXCEPT !.timers = @ \ {t}], today))
        /\ loopFetches' = loopFetches + 1
        /\ UNCHANGED <<today, dayFetches, call, pausedFor, clock, worker>>

FetchDone_IntervalBeforeMerge ==
    /\ loopFetches > 0
    /\ \E response \in Responses(today), currentMinutes \in ClockSamples :
           Commit(updateBroadcastsResume(schedulePoll(St, currentMinutes),
                                         response, today))
    /\ loopFetches' = loopFetches - 1
    /\ UNCHANGED <<today, dayFetches, call, pausedFor, clock, worker>>

FetchDone_NoRearmOnFailure ==
    /\ loopFetches > 0
    /\ \E response \in Responses(today), currentMinutes \in ClockSamples :
           IF response.ok
           THEN Commit(schedulePoll(updateBroadcastsResume(St, response, today),
                                    currentMinutes))
           ELSE Commit(updateBroadcastsResume(St, response, today))
    /\ loopFetches' = loopFetches - 1
    /\ UNCHANGED <<today, dayFetches, call, pausedFor, clock, worker>>

\* The fetch awaited by init() or by the poll callback completes; the
\* continuation merges and then calls schedulePoll(), which reads the time of
\* day.
FetchDone ==
    /\ loopFetches > 0
    /\ \E response \in Responses(today), currentMinutes \in ClockSamples :
           Commit(schedulePoll(updateBroadcastsResume(St, response, today),
                               currentMinutes))
    /\ loopFetches' = loopFetches - 1
    /\ UNCHANGED <<today, dayFetches, call, pausedFor, clock, worker>>

\* setupMidnightCheck's once-a-minute callback.
DayCheckTick ==
    /\ Commit(checkDayChange(St, today))
    /\ dayFetches' = IF DayChanged(St, today) THEN dayFetches + 1 ELSE dayFetches
    /\ UNCHANGED <<today, loopFetches, call, pausedFor, clock, worker>>

\* A fetch started by the day check completes.
DayFetchDone ==
    /\ dayFetches > 0
    /\ \E response \in Responses(today) :
           Commit(updateBroadcastsResume(St, response, today))
    /\ dayFetches' = dayFetches - 1
    /\ UNCHANGED <<today, loopFetches, call, pausedFor, clock, worker>>

\* Local midnight passes.
DayAdvance ==
    /\ today < MaxDay
    /\ today' = today + 1
    /\ resetCount' = 0
    /\ UNCHANGED <<broadcasts, currentSlot, lastFetchDate, pollTimer, audioFocusTimer,
                   audioSrc, audioPaused, silenceSrc, currentTime, duration,
                   shown, timers, loopFetches, dayFetches, call, pausedFor, clock, worker>>

Next ==
    \/ TileClick
    \/ ToggleClick
    \/ MediaPlay
    \/ MediaPause
    \/ MediaStop
    \/ AudioEnded
    \/ AudioError
    \/ FocusTimerFire
    \/ PollTimerFire
    \/ FetchDone
    \/ DayCheckTick
    \/ DayFetchDone
    \/ DayAdvance

Spec == Init /\ [][Next]_vars

\* The fetch cycles alone (the playback handlers touch neither the poll timer
\* nor the fetches), when every fetch the poll loop has started completes.
NextPolling ==
    \/ PollTimerFire
    \/ FetchDone
    \/ DayCheckTick
    \/ DayFetchDone
    \/ DayAdvance

SpecLive == Init /\ [][NextPolling]_vars /\ WF_vars(FetchDone)

\* ------------------------------------------------- the poll loop on the clock

\* The minutes the clock is followed for, from ClockStart on.
ClockSpan == 40

MsPerMinute == 60 * 1000

\* The fetch awaited by init() or by the poll callback completes; schedulePoll
\* reads the time of day off the clock.
ClockFetchDone ==
    /\ loopFetches > 0
    /\ \E response \in Responses(today) :
           Commit(schedulePoll(updateBroadcastsResume(St, response, today), clock))
    /\ loopFetches' = loopFetches - 1
    /\ UNCHANGED <<today, dayFetches, call, pausedFor, clock, worker>>

\* The browser fires the poll timer when its delay has run out.
ClockPollTimerFire ==
    \E t \in timers :
        /\ t.kind = "poll"
        /\ t.delay = 0
        /\ Commit(checkDayChange([St EXCEPT !.timers = @ \ {t}], today))
        /\ loopFetches' = loopFetches + 1
        /\ UNCHANGED <<today, dayFetches, call, pausedFor, clock, worker>>

\* A minute passes; a timer that is due fires first.
ClockTick ==
    /\ \A t \in timers : t.delay > 0
    /\ clock < ClockStart + ClockSpan
    /\ clock' = clock + 1
    /\ timers' = {[t EXCEPT !.delay = @ - MsPerMinute] : t \in timers}
    /\ UNCHANGED <<broadcasts, currentSlot, lastFetchDate, pollTimer, audioFocusTimer,
                   audioSrc, audioPaused, silenceSrc, currentTime, duration,
                   shown, resetCount, today, loopFetches, dayFetches, call,
                   pausedFor, worker>>

NextClock ==
    \/ ClockFetchDone
    \/ ClockPollTimerFire
    \/ ClockTick

SpecClock == Init /\ [][NextClock]_vars

\* ------------------------------------------------- the service worker's life

\* The requests the page makes: the API, an audio file, a file of the app
\* shell, a static file outside the shell, and a form post.
Requests ==
    {[host |-> "api.sr.se", key |-> "podfiles", method |-> "GET"],
     [host |-> "static-cdn.sr.se", key |-> "ekot.mp3", method |-> "GET"],
     [host |-> "self", key |-> "./app.js", method |-> "GET"],
     [host |-> "self", key |-> "./extra.png", method |-> "GET"],
     [host |-> "self", key |-> "sr-api-latest", method |-> "GET"],
     [host |-> "self", key |-> "./extra.png", method |-> "POST"]}

\* What the network gives.
Outcomes ==
    {[kind |-> "ok", body |-> "fresh"],
     [kind |-> "not ok", body |-> "HTTP 500"],
     [kind |-> "fail"]}

\* The key caches.match is called with for the request.
MatchKey(request) ==
    IF request.host = "api.sr.se" THEN "sr-api-latest" ELSE request.key

appUnchanged == UNCHANGED <<appVars, today, loopFetches, dayFetches, call,
                            pausedFor, clock>>

SwInstall ==
    /\ worker.phase = "parsed"
    /\ worker' = swInstall(worker)
    /\ appUnchanged

SwActivate ==
    /\ worker.phase = "installed"
    /\ worker' = swActivate(worker)
    /\ appUnchanged

SwDelete ==
    /\ worker.phase = "activating"
    /\ \E key \in worker.keys : worker' = swDelete(worker, key)
    /\ appUnchanged

SwActivated ==
    /\ worker.phase = "activating"
    /\ worker.keys = {}
    /\ worker' = swActivated(worker)
    /\ appUnchanged

\* A request of a controlled page reaches the active worker.
SwFetch ==
    /\ worker.phase = "active"
    /\ \E request \in Requests, outcome \in Outcomes :
           \E cached \in (IF CacheMatches(worker.caches, MatchKey(request)) = {}
                           THEN {NoResponse}
                           ELSE CacheMatches(worker.caches, MatchKey(request))) :
               worker' = swFetch(worker, request, outcome, cached)
    /\ appUnchanged

SwPut ==
    /\ \E put \in worker.puts : worker' = swPut(worker, put)
    /\ appUnchanged

NextWorker ==
    \/ SwInstall
    \/ SwActivate
    \/ SwDelete
    \/ SwActivated
    \/ SwFetch
    \/ SwPut

SpecWorker == Init /\ [][NextWorker]_vars

\* ------------------------------------------------------ the static server

\* A path is the sequence of its segments; a string is the sequence of its
\* pieces, "/" and the pieces of the segment names, so that one name can
\* begin with another.
Pieces(segment) ==
    IF segment = "ekot-secret" THEN <<"ekot", "-secret">> ELSE <<segment>>

RECURSIVE PathString(_)
PathString(segments) ==
    IF segments = <<>> THEN <<>>
    ELSE <<"/">> \o Pieces(Head(segments)) \o PathString(Tail(segments))

\* __dirname
DirName == <<"srv", "ekot">>

\* The files on the disk.
Files ==
    {<<"srv", "ekot", "index.html">>, <<"srv", "ekot", "app.js">>,
     <<"srv", "ekot-secret", "secret.txt">>, <<"srv", "secret.txt">>,
     <<"secret.txt">>}

\* The most segments a request URL has.
MaxSegments == 3

SegmentNames ==
    {"..", ".", "index", "index.html", "app.js", "secret.txt", "ekot",
     "ekot-secret", "srv"}

\* path.join's normalisation: "." is dropped, ".." drops the segment before
\* it, and nothing goes above the root.
RECURSIVE normalize(_, _)
normalize(segments, acc) ==
    IF segments = <<>> THEN acc
    ELSE IF Head(segments) = "." THEN normalize(Tail(segments), acc)
    ELSE IF Head(segments) = ".."
    THEN normalize(Tail(segments),
                   IF acc = <<>> THEN acc ELSE SubSeq(acc, 1, Len(acc) - 1))
    ELSE normalize(Tail(segments), Append(acc, Head(segments)))

pathJoin(dir, url) == normalize(dir \o url, <<>>)

\* String.prototype.startsWith
startsWith(str, prefix) ==
    /\ Len(prefix) <= Len(str)
    /\ SubSeq(str, 1, Len(prefix)) = prefix

\* path.extname(filePath) is not empty
HasExtname(filePath) ==
    filePath # <<>> /\ filePath[Len(filePath)] \in {"index.html", "app.js", "secret.txt"}

\* filePath + '.html'
WithHtml(filePath) ==
    IF filePath # <<>> /\ filePath[Len(filePath)] = "index"
    THEN [filePath EXCEPT ![Len(filePath)] = "index.html"]
    ELSE Append(filePath, ".html")

\* handleRequest for a static file: the status answered and the files read.
handleRequest(url) ==
    LET filePath == pathJoin(DirName, IF url = <<>> THEN <<"index.html">> ELSE url)
    IN  IF ~startsWith(PathString(filePath), PathString(DirName))
        THEN [status |-> 403, read |-> {}]
        ELSE IF filePath \in Files
        THEN [status |-> 200, read |-> {filePath}]
        ELSE IF ~HasExtname(filePath) /\ WithHtml(filePath) \in Files
        THEN [status |-> 200, read |-> {WithHtml(filePath)}]
        ELSE [status |-> 404, read |-> {}]

\* A request for a static file arrives.
ServerRequest ==
    /\ call = NoCall
    /\ \E n \in 0..MaxSegments :
           \E url \in [1..n -> SegmentNames] :
               call' = [fn |-> "handleRequest", url |-> url,
                        answer |-> handleRequest(url)]
    /\ UNCHANGED <<appVars, today, loopFetches, dayFetches, pausedFor, clock,
                   worker>>

SpecServer == Init /\ [][ServerRequest]_vars

\* ------------------------------------------- function specifications

\* A response listing, for each slot k with listing[k] # 0, an item published
\* at the instant listing[k], and last an item whose title names no slot.
ListedResponse(listing) ==
    LET Listed(p) == p.publishdateutc # 0
        items == [k \in SlotIdx |->
                     [title |-> TitleOf(SLOTS[k].time),
                      publishdateutc |-> listing[k],
                      url |-> SLOTS[k].time]]
        other == [title |-> <<"Ekot">>, publishdateutc |-> today * TsPerDay, url |-> "other"]
    IN  [ok |-> TRUE,
         podfiles |-> SelectSeq(items, Listed) \o <<other>>]

\* updateBroadcasts completes with a response whose items carry any of the
\* day's timestamps.  Recorded: the parsed mapping, and whether the merge met
\* a stored entry newer than the incoming entry of its slot.
MergeCall ==
    \E listing \in [SlotIdx -> {0} \cup DayTimestamps(today)] :
        \E response \in {ListedResponse(listing)} :
            \E incoming \in {parseApiResponse(response.podfiles, today)} :
                /\ Commit(updateBroadcastsResume(St, response, today))
                /\ call' = [fn |-> "merge",
                            incoming |-> incoming,
                            metNewer |->
                                \E t \in DOMAIN incoming \cap DOMAIN broadcasts :
                                    broadcasts[t].timestamp > incoming[t].timestamp]
                /\ UNCHANGED <<today, loopFetches, dayFetches, pausedFor, clock, worker>>

SpecMerge == Init /\ [][MergeCall]_vars

\* ------------------------------------------------------- parsing a response

\* The most items a response lists.
MaxItems == 2

\* What an item's title names: no slot, one slot, or two slots in either
\* order.
ItemTitles ==
    {<<"Ekot">>, TitleOf("08:00"), TitleOf("12:30"),
     <<"08:00", "12:30">>, <<"12:30", "08:00">>}

\* Publish instants: the last of the day before, the first and the last of
\* today (day 1), the first of the day after.
ItemInstants == {TsPerDay - 1, TsPerDay, 2 * TsPerDay - 1, 2 * TsPerDay}

\* podfile.url, '' when the item has none
ItemUrls == {"", "a.mp3"}

Podfiles ==
    [title : ItemTitles, publishdateutc : ItemInstants, url : ItemUrls]

\* updateBroadcasts completes with a response listing any items.  Recorded:
\* the items and the mapping parseApiResponse makes of them.
ParseCall ==
    /\ call = NoCall
    /\ \E n \in 0..MaxItems :
           \E podfiles \in [1..n -> Podfiles] :
               /\ Commit(updateBroadcastsResume(
                             St, [ok |-> TRUE, podfiles |-> podfiles], today))
               /\ call' = [fn |-> "parseApiResponse",
                           podfiles |-> podfiles,
                           result |-> parseApiResponse(podfiles, today)]
    /\ UNCHANGED <<today, loopFetches, dayFetches, pausedFor, clock, worker>>

SpecParse == Init /\ [][ParseCall]_vars

\* The store with exactly the slots in present, as fetches of day 1 leave it.
PresenceStore(present) ==
    [t \in present |-> [title |-> TitleOf(t), timestamp |-> TsPerDay, audioUrl |-> t]]

MinutesOfDay == 0..(24 * 60 - 1)

InitInterval == \E present \in SUBSET SlotTimes : InitWith(PresenceStore(present))

\* calculatePollInterval is called at some minute of the day.
IntervalCall ==
    /\ call = NoCall
    /\ \E currentMinutes \in MinutesOfDay :
           call' = [fn |-> "calculatePollInterval",
                    currentMinutes |-> currentMinutes,
                    interval |-> calculatePollInterval(currentMinutes, broadcasts)]
    /\ UNCHANGED <<appVars, today, loopFetches, dayFetches, pausedFor, clock, worker>>

SpecInterval == InitInterval /\ [][IntervalCall]_vars

\* ------------------------------------------------ playback specification

\* A store entry as parseApiResponse builds it; url "" is an item without url.
Entry(t, ts, url) == [title |-> TitleOf(t), timestamp |-> ts, audioUrl |-> url]

\* Stores of day 1: none yet; two slots, the later one without url; three
\* slots, the first the latest, the third without url.
PlaybackStores ==
    { EmptyStore,
      [t \in {"08:00", "12:30"} |->
          IF t = "08:00" THEN Entry(t, TsPerDay, "08:00")
          ELSE Entry(t, TsPerDay + 1, "")],
      [t \in {"08:00", "12:30", "16:45"} |->
          IF t = "08:00" THEN Entry(t, TsPerDay + 1, "08:00")
          ELSE IF t = "12:30" THEN Entry(t, TsPerDay, "12:30")
          ELSE Entry(t, TsPerDay, "")] }

InitPlayback == \E bc \in PlaybackStores : InitWith(bc)

\* The call of fn with these inputs on the present state is recorded.
Record(fn, slot, accepted) ==
    /\ call' = [fn |-> fn, slot |-> slot, accepted |-> accepted, before |-> St]
    /\ UNCHANGED <<today, loopFetches, dayFetches, pausedFor, clock, worker>>

\* play(slot), for any slot label
PlayCall ==
    \E slot \in SlotTimes, accepted \in BOOLEAN :
        /\ Commit(playBroadcast(St, slot, accepted))
        /\ Record("playBroadcast", slot, accepted)

ToggleCall ==
    \E accepted \in BOOLEAN :
        /\ Commit(togglePlayPause(St, accepted))
        /\ Record("togglePlayPause", None, accepted)

MediaPlayCall ==
    \E accepted \in BOOLEAN :
        /\ Commit(mediaSessionPlay(St, accepted))
        /\ Record("mediaSessionPlay", None, accepted)

MediaPauseCall ==
    /\ Commit(mediaSessionPause(St))
    /\ Record("mediaSessionPause", None, FALSE)

StopCall ==
    /\ Commit(stopPlayback(St))
    /\ Record("stopPlayback", None, FALSE)

EndedEvent ==
    /\ audioSrc # ""
    /\ ~audioPaused
    /\ Commit(onEnded(St))
    /\ Record("ended", None, FALSE)

ErrorEvent ==
    /\ audioSrc # ""
    /\ Commit(onError(St))
    /\ Record("error", None, FALSE)

FocusTimeout ==
    \E t \in timers :
        /\ t.kind = "focus"
        /\ Commit(onAudioFocusTimeout([St EXCEPT !.timers = @ \ {t}]))
        /\ Record("audioFocusTimeout", None, FALSE)

NextPlayback ==
    \/ PlayCall
    \/ ToggleCall
    \/ MediaPlayCall
    \/ MediaPauseCall
    \/ StopCall
    \/ EndedEvent
    \/ ErrorEvent
    \/ FocusTimeout

SpecPlayback == InitPlayback /\ [][NextPlayback]_vars

\* --------------------------------------------------- timed specification

\* Here a timer's delay is the time left until the browser fires it, time
\* passes by Tick, and the audio element accepts every play request.

TickStep == AUDIO_FOCUS_TIMEOUT \div TicksPerTimeout

\* Time is followed until a Paused session is this old.
MaxPausedFor == 2 * AUDIO_FOCUS_TIMEOUT

Least(S) == CHOOSE x \in S : \A y \in S : x <= y

\* With the handler's result r the time spent in Paused goes on counting only
\* if the session was and stays Paused.
TimedFrame(r) ==
    /\ pausedFor' = IF StatusOf(St) = "Paused" /\ StatusOf(r) = "Paused"
                    THEN pausedFor ELSE 0
    /\ UNCHANGED <<today, loopFetches, dayFetches, call, clock, worker>>

TimedTileClick ==
    \E slot \in SlotTimes :
        /\ Has(broadcasts, slot)
        /\ Commit(playBroadcast(St, slot, TRUE))
        /\ TimedFrame(playBroadcast(St, slot, TRUE))

TimedToggle ==
    /\ Commit(togglePlayPause(St, TRUE))
    /\ TimedFrame(togglePlayPause(St, TRUE))

TimedMediaPlay ==
    /\ Commit(mediaSessionPlay(St, TRUE))
    /\ TimedFrame(mediaSessionPlay(St, TRUE))

TimedMediaPause ==
    /\ Commit(mediaSessionPause(St))
    /\ TimedFrame(mediaSessionPause(St))

TimedStop ==
    /\ Commit(stopPlayback(St))
    /\ TimedFrame(stopPlayback(St))

TimedEnded ==
    /\ audioSrc # ""
    /\ ~audioPaused
    /\ Commit(onEnded(St))
    /\ TimedFrame(onEnded(St))

\* The browser fires a timer when its delay has run out.
TimedFocusTimerFire ==
    \E t \in timers :
        /\ t.kind = "focus"
        /\ t.delay = 0
        /\ Commit(onAudioFocusTimeout([St EXCEPT !.timers = @ \ {t}]))
        /\ TimedFrame(onAudioFocusTimeout([St EXCEPT !.timers = @ \ {t}]))

\* Time passes, up to the moment the next timer is due.
Tick ==
    /\ \A t \in timers : t.delay > 0
    /\ pausedFor < MaxPausedFor
    /\ LET dt == Least({TickStep} \cup {t.delay : t \in timers})
       IN  /\ timers' = {[t EXCEPT !.delay = @ - dt] : t \in timers}
           /\ pausedFor' = IF StatusOf(St) = "Paused" THEN pausedFor + dt ELSE 0
    /\ UNCHANGED <<broadcasts, currentSlot, lastFetchDate, pollTimer, audioFocusTimer,
                   audioSrc, audioPaused, silenceSrc, currentTime, duration,
                   shown, resetCount, today, loopFetches, dayFetches, call, clock, worker>>

NextTimed ==
    \/ TimedTileClick
    \/ TimedToggle
    \/ TimedMediaPlay
    \/ TimedMediaPause
    \/ TimedStop
    \/ TimedEnded
    \/ TimedFocusTimerFire
    \/ Tick

SpecTimed == InitPlayback /\ [][NextTimed]_vars

\* ---------------------------------------------- media time specification

\* The durations a loaded source turns out to have, in seconds.
Durations == {MaxDuration \div 2, MaxDuration}

\* Playback advances the position by this much between two looks at it.
PlayStep == 10

\* The skip buttons and track actions skip SKIP_STEP either way; the seek
\* backward/forward actions skip by the offset the platform gives.
SkipDeltas == {-2 * SKIP_STEP, -SKIP_STEP, SKIP_STEP, 2 * SKIP_STEP}

\* The step is no call of a function under specification.
Forget ==
    /\ call' = NoCall
    /\ UNCHANGED <<today, loopFetches, dayFetches, pausedFor, clock, worker>>

SeekTileClick ==
    \E slot \in SlotTimes, accepted \in BOOLEAN :
        /\ Has(broadcasts, slot)
        /\ Commit(playBroadcast(St, slot, accepted))
        /\ Forget

SeekToggle ==
    \E accepted \in BOOLEAN :
        /\ Commit(togglePlayPause(St, accepted))
        /\ Forget

SeekStop ==
    /\ Commit(stopPlayback(St))
    /\ Forget

\* The audio element has read the metadata of the loaded source.
LoadedMetadata ==
    /\ audioSrc # ""
    /\ duration = NaN
    /\ \E d \in Durations : Commit([St EXCEPT !.duration = d])
    /\ Forget

\* Playback advances.
TimeUpdate ==
    /\ ~audioPaused
    /\ duration # NaN
    /\ currentTime < duration
    /\ Commit([St EXCEPT !.currentTime = Min(duration, @ + PlayStep)])
    /\ Forget

\* Playback reaches the end of the source.
SeekEnded ==
    /\ ~audioPaused
    /\ duration # NaN
    /\ currentTime = duration
    /\ Commit(onEnded(St))
    /\ Forget

\* skipTime(seconds), from a skip button or a media-session action
SkipCall ==
    \E seconds \in SkipDeltas :
        /\ Commit(skipTime(St, seconds))
        /\ call' = [fn |-> "skipTime", seconds |-> seconds, before |-> St]
        /\ UNCHANGED <<today, loopFetches, dayFetches, pausedFor, clock, worker>>

\* Where the pointer is released along the progress bar, in percent.
Pointers == {-50, 0, 25, 100, 150}

\* The position asked for by a pointer at that place.
PointerPosition(pointer, d) == (pointer * d) \div 100

\* seekTo(event), from a drag or click on the progress bar
SeekBarCall ==
    \E pointer \in Pointers :
        /\ Commit(seekTo(St, pointer))
        /\ call' = [fn |-> "seekTo",
                    position |-> PointerPosition(pointer, duration),
                    given |-> TRUE, before |-> St]
        /\ UNCHANGED <<today, loopFetches, dayFetches, pausedFor, clock, worker>>

\* The seek times the platform media controls ask for.
SeekTimes == {-SKIP_STEP, 0, SKIP_STEP, MaxDuration + SKIP_STEP}

\* the 'seekto' action of the platform media controls
MediaSeekCall ==
    \E details \in {[action |-> "seekto"]}
                     \cup {[action |-> "seekto", seekTime |-> x] : x \in SeekTimes} :
        /\ Commit(mediaSessionSeekTo(St, details))
        /\ call' = [fn |-> "seekto",
                    position |-> IF "seekTime" \in DOMAIN details
                                 THEN details.seekTime ELSE 0,
                    given |-> "seekTime" \in DOMAIN details, before |-> St]
        /\ UNCHANGED <<today, loopFetches, dayFetches, pausedFor, clock, worker>>

NextSeek ==
    \/ SeekBarCall
    \/ MediaSeekCall
    \/ SeekTileClick
    \/ SeekToggle
    \/ SeekStop
    \/ LoadedMetadata
    \/ TimeUpdate
    \/ SeekEnded
    \/ SkipCall

SpecSeek == InitPlayback /\ [][NextSeek]_vars

\* ------------------------------------------------------------ properties

\* PlaybackSession.status: Playing while the AudioSurface plays; Paused while
\* a slot is current and its source is loaded but not playing; else Stopped.
Status == StatusOf(St)

PendingTimers(kind) == {t \in timers : t.kind = kind}

\* C1 (as stated): the audio-focus timer handle is set only while the playback
\* status is Paused, never while it is Playing or Stopped.
C1_FocusTimerOnlyWhilePaused ==
    audioFocusTimer # NoTimer => Status = "Paused"

\* C2 (as stated): while the AudioSurface plays no focus timer is armed; a step
\* that arms the focus timer ends in Paused; a step that leaves Paused cancels
\* the focus timer.
C2_FocusTimerTransitions ==
    [][ /\ (~audioPaused' => audioFocusTimer' = NoTimer)
        /\ ((\E t \in timers' \ timers : t.kind = "focus") => Status' = "Paused")
        /\ ((Status = "Paused" /\ Status' # "Paused")
               => (audioFocusTimer' = NoTimer /\ \A t \in timers' : t.kind # "focus"))
      ]_vars

\* C3: whenever currentSlot is set, the store holds a Broadcast for that slot.
C3_CurrentSlotInStore ==
    currentSlot # None => Has(broadcasts, currentSlot)

\* C3 witness: a slot is current again after a day reset emptied the store.
C3_Witness ==
    /\ currentSlot # None
    /\ Has(broadcasts, currentSlot)
    /\ resetCount = 1
    /\ today > 1

\* C4 (as stated): per crossing of the day boundary the reset runs exactly
\* once: never twice, and the program holds the new day as its stored date
\* only after the reset for that crossing has run.
C4_ResetOncePerCrossing ==
    /\ resetCount <= 1
    /\ (today > 1 /\ lastFetchDate = today) => resetCount = 1

\* C5 (as stated): at most one feed fetch is in flight, whoever started it.
C5_AtMostOneFetchInFlight ==
    loopFetches + dayFetches <= 1

\* C5 (amended): at most one fetch of the poll loop (init's initial load, the
\* poll callback's) is in flight, and none while a poll timer is pending.
C5_LoopFetchesSerialized ==
    /\ loopFetches <= 1
    /\ loopFetches = 1 => PendingTimers("poll") = {}

\* C5 witness: a poll-loop fetch and a day-check fetch are in flight together.
C5_Witness ==
    /\ loopFetches = 1
    /\ dayFetches = 1

\* C6: at most one poll timer and at most one audio-focus timer is pending.
C6_SingleTimerPerKind ==
    /\ Cardinality(PendingTimers("poll")) <= 1
    /\ Cardinality(PendingTimers("focus")) <= 1

\* C6 witness: one timer of each kind is pending, the poll timer re-armed by a
\* completed poll cycle of a later day.
C6_Witness ==
    /\ Cardinality(PendingTimers("poll")) = 1
    /\ Cardinality(PendingTimers("focus")) = 1
    /\ lastFetchDate > 1

PollStartMinutes(i) == SLOTS[i].pollStart.hour * 60 + SLOTS[i].pollStart.minute

\* The absent slots that are within their extended window at minute m.
Qualifying(m, bc) ==
    {i \in SlotIdx : /\ ~Has(bc, SLOTS[i].time)
                     /\ m - PollStartMinutes(i) >= 0
                     /\ m - PollStartMinutes(i) <= EXTENDED_WINDOW}

ExpectedInterval(m, bc) ==
    IF Qualifying(m, bc) = {} THEN POLL_IDLE
    ELSE LET first == CHOOSE i \in Qualifying(m, bc) : \A j \in Qualifying(m, bc) : i <= j
         IN  IF m - PollStartMinutes(first) <= ACTIVE_WINDOW THEN POLL_ACTIVE
             ELSE POLL_EXTENDED

\* C8: by every merge the store keeps keys among the configured slot labels
\* only, every slot of the incoming mapping comes to hold exactly the incoming
\* Broadcast whatever the timestamp of the entry it replaces, and every other
\* slot stays as it was.
C8_MergeLastFetchedWins ==
    [][ call'.fn = "merge" =>
          /\ DOMAIN broadcasts' \subseteq SlotTimes
          /\ \A t \in SlotTimes :
                 IF t \in DOMAIN call'.incoming
                 THEN Has(broadcasts', t) /\ broadcasts'[t] = call'.incoming[t]
                 ELSE /\ Has(broadcasts', t) <=> Has(broadcasts, t)
                      /\ Has(broadcasts', t) => broadcasts'[t] = broadcasts[t]
      ]_vars

\* C8 witness: a merge replaced an entry by an older one and left a slot that
\* the response did not list in the store.
C8_Witness ==
    /\ call.fn = "merge"
    /\ call.metNewer
    /\ DOMAIN broadcasts \ DOMAIN call.incoming # {}

\* C9: calculatePollInterval returns ACTIVE when the first absent slot within
\* 30 minutes after its pollStart is within 10 minutes after it, EXTENDED when
\* that slot is 10 to 30 minutes after it, and IDLE when there is no such slot;
\* with 08:00 absent that is ACTIVE at 08:25, EXTENDED at 08:35 and IDLE at
\* 08:55, and with all four slots present IDLE at every minute.
C9_PollInterval ==
    call.fn = "calculatePollInterval" =>
        /\ call.interval = ExpectedInterval(call.currentMinutes, broadcasts)
        /\ (~Has(broadcasts, "08:00") /\ call.currentMinutes = 8 * 60 + 25)
              => call.interval = POLL_ACTIVE
        /\ (~Has(broadcasts, "08:00") /\ call.currentMinutes = 8 * 60 + 35)
              => call.interval = POLL_EXTENDED
        /\ (~Has(broadcasts, "08:00") /\ call.currentMinutes = 8 * 60 + 55)
              => call.interval = POLL_IDLE
        /\ DOMAIN broadcasts = SlotTimes => call.interval = POLL_IDLE

\* C9 witness: at 13:10, with 08:00 present and 12:30 absent, the call has
\* skipped the first slot and answered for the second at the end of its
\* active window.
C9_Witness ==
    /\ call.fn = "calculatePollInterval"
    /\ Has(broadcasts, "08:00")
    /\ ~Has(broadcasts, "12:30")
    /\ call.currentMinutes = 13 * 60 + 10
    /\ call.interval = POLL_ACTIVE

SlotIndex(t) == CHOOSE i \in SlotIdx : SLOTS[i].time = t

LatestIsEarliestMaximum(bc) ==
    LET latest == findLatestBroadcast(bc)
    IN  /\ latest = None <=> DOMAIN bc = {}
        /\ latest # None =>
              /\ Has(bc, latest)
              /\ \A t \in DOMAIN bc :
                     /\ bc[t].timestamp <= bc[latest].timestamp
                     /\ bc[t].timestamp = bc[latest].timestamp
                           => SlotIndex(latest) <= SlotIndex(t)

\* C10: findLatestBroadcast returns none exactly for the empty store; else it
\* returns a slot holding the maximum timestamp, the earliest in configured
\* order among those; and after a merge that brings one Broadcast newer than
\* every entry the store held and than the rest of the response, it returns
\* that Broadcast's slot.
C10_FindLatest ==
    /\ []LatestIsEarliestMaximum(broadcasts)
    /\ [][ call'.fn = "merge" =>
             \A t \in DOMAIN call'.incoming :
                 ( /\ \A u \in DOMAIN broadcasts :
                          broadcasts[u].timestamp < call'.incoming[t].timestamp
                   /\ \A u \in DOMAIN call'.incoming \ {t} :
                          call'.incoming[u].timestamp < call'.incoming[t].timestamp )
                 => findLatestBroadcast(broadcasts') = t
         ]_vars

\* C10 witness: two slots tie on the maximum timestamp, which a merge brought
\* to the later of them while a third slot holds an older entry, and the
\* earlier of the two is returned.
C10_Witness ==
    /\ call.fn = "merge"
    /\ \E t, u \in DOMAIN broadcasts :
           /\ SlotIndex(t) < SlotIndex(u)
           /\ broadcasts[t].timestamp = broadcasts[u].timestamp
           /\ u \in DOMAIN call.incoming
           /\ t \notin DOMAIN call.incoming
           /\ findLatestBroadcast(broadcasts) = t
    /\ \E v \in DOMAIN broadcasts :
           broadcasts[v].timestamp < broadcasts[findLatestBroadcast(broadcasts)].timestamp

\* ------------------------------------------- properties of the playback calls

\* The store bc has nothing playable for slot: no entry, or one without url.
NoBroadcast(bc, slot) == ~Has(bc, slot) \/ bc[slot].audioUrl = ""

\* The recorded call was playBroadcast for a slot that was playable.
PlayedPlayable ==
    /\ call.fn = "playBroadcast"
    /\ ~NoBroadcast(call.before.broadcasts, call.slot)

\* C11: playBroadcast for a slot that is absent from the store or whose entry
\* has an empty audioUrl shows the no-broadcast error and leaves the whole
\* state (current slot, audio element, focus timer, store) as it found it.
C11_NoBroadcastNoChange ==
    (call.fn = "playBroadcast" /\ NoBroadcast(call.before.broadcasts, call.slot))
        => /\ shown = "Ingen sandning tillganglig"
           /\ St = call.before

\* C11 witness: the call came in Paused with the focus timer armed, for a slot
\* whose entry has no url, and the timer is still armed.
C11_Witness ==
    /\ call.fn = "playBroadcast"
    /\ Has(call.before.broadcasts, call.slot)
    /\ NoBroadcast(call.before.broadcasts, call.slot)
    /\ StatusOf(call.before) = "Paused"
    /\ audioFocusTimer # NoTimer

\* C12: playBroadcast for a slot with a non-empty audioUrl, from any state,
\* leaves no focus timer armed, makes the slot current and loads its audioUrl;
\* when the audio element accepts playback the status is Playing.
C12_PlayLoadsSlot ==
    PlayedPlayable
        => /\ audioFocusTimer = NoTimer
           /\ PendingTimers("focus") = {}
           /\ silenceSrc = ""
           /\ currentSlot = call.slot
           /\ audioSrc = broadcasts[call.slot].audioUrl
           /\ call.accepted => Status = "Playing"

\* C12 witness: the call came in Paused on another slot with the focus timer
\* armed, and playback started.
C12_Witness ==
    /\ PlayedPlayable
    /\ call.accepted
    /\ StatusOf(call.before) = "Paused"
    /\ call.before.audioFocusTimer # NoTimer
    /\ call.before.currentSlot # call.slot
    /\ Status = "Playing"

\* The recorded call asked the audio element to play: playBroadcast for a
\* playable slot, or a toggle or media-control play that found a paused source
\* loaded (resume) or, for the toggle, nothing loaded and the latest slot
\* playable.
PlayRequested ==
    \/ PlayedPlayable
    \/ /\ call.fn \in {"togglePlayPause", "mediaSessionPlay"}
       /\ call.before.audioSrc # ""
       /\ call.before.audioPaused
    \/ /\ call.fn = "togglePlayPause"
       /\ call.before.audioSrc = ""
       /\ findLatestBroadcast(call.before.broadcasts) # None
       /\ ~NoBroadcast(call.before.broadcasts,
                       findLatestBroadcast(call.before.broadcasts))

\* C13 (as stated): when the audio element rejects a play request issued by
\* playBroadcast or by a resume, the controller ends in Stopped with no
\* current slot, no source loaded and no focus timer armed.
C13_RejectionStops ==
    (call.fn # "none" /\ PlayRequested /\ ~call.accepted)
        => /\ Status = "Stopped"
           /\ currentSlot = None
           /\ audioSrc = ""
           /\ audioFocusTimer = NoTimer

\* The focus timer is armed: the handle denotes a pending focus timer.
FocusTimerArmed ==
    /\ audioFocusTimer # NoTimer
    /\ audioFocusTimer \in {t.id : t \in PendingTimers("focus")}

\* C14 (as stated): a pause request (the toggle, the media-control pause
\* action) while Playing pauses the audio element, ends in Paused and arms
\* the focus timer; the media-control pause action in any other state changes
\* nothing.
C14_PauseOnlyWhilePlaying ==
    /\ ( /\ call.fn \in {"togglePlayPause", "mediaSessionPause"}
         /\ StatusOf(call.before) = "Playing" )
          => (audioPaused /\ Status = "Paused" /\ FocusTimerArmed)
    /\ ( /\ call.fn = "mediaSessionPause"
         /\ StatusOf(call.before) # "Playing" )
          => St = call.before

\* C15: stopPlayback, in any state, ends in Stopped with the focus timer
\* cancelled and its handle null, the audio element paused with no source,
\* no current slot, and the store as it was.
C15_StopResets ==
    call.fn = "stopPlayback"
        => /\ Status = "Stopped"
           /\ audioFocusTimer = NoTimer
           /\ PendingTimers("focus") = {}
           /\ audioPaused
           /\ audioSrc = ""
           /\ currentSlot = None
           /\ broadcasts = call.before.broadcasts

\* C15 witness: stopPlayback ran in Paused with the focus timer armed and a
\* non-empty store.
C15_Witness ==
    /\ call.fn = "stopPlayback"
    /\ StatusOf(call.before) = "Paused"
    /\ call.before.audioFocusTimer # NoTimer
    /\ call.before.timers # {}
    /\ DOMAIN broadcasts # {}

\* C16 (as stated): a resume leaves no focus timer armed, and a session that
\* stays Paused is stopped by the focus timer when AUDIO_FOCUS_TIMEOUT has
\* passed since the pause, whatever requests other than a resume arrive in
\* between: no session is Paused for longer than AUDIO_FOCUS_TIMEOUT.
C16_PausedAtMostTimeout ==
    /\ Status = "Playing" => audioFocusTimer = NoTimer
    /\ pausedFor <= AUDIO_FOCUS_TIMEOUT

\* The present state is the handler result r, message included.
Outcome(r) == St = [r EXCEPT !.shown = ""] /\ shown = r.shown

\* C17 (as stated): togglePlayPause in Stopped with nothing loaded and a
\* non-empty store does what playBroadcast does for the slot that
\* findLatestBroadcast returns; in Playing it pauses, ending in Paused with
\* the focus timer armed; in Paused it resumes, leaving no focus timer armed
\* and the current slot as it was, and ending in Playing when the audio
\* element accepts.
C17_ToggleDispatch ==
    call.fn = "togglePlayPause" =>
        /\ ( /\ StatusOf(call.before) = "Stopped"
             /\ call.before.audioSrc = ""
             /\ DOMAIN call.before.broadcasts # {} )
              => Outcome(playBroadcast(call.before,
                                       findLatestBroadcast(call.before.broadcasts),
                                       call.accepted))
        /\ StatusOf(call.before) = "Playing"
              => (audioPaused /\ Status = "Paused" /\ FocusTimerArmed)
        /\ StatusOf(call.before) = "Paused"
              => /\ audioFocusTimer = NoTimer
                 /\ PendingTimers("focus") = {}
                 /\ currentSlot = call.before.currentSlot
                 /\ call.accepted => Status = "Playing"

\* C18 (as stated): togglePlayPause in Stopped with an empty store shows the
\* no-broadcasts notice and changes nothing: the status is Stopped, no slot is
\* current, no source is loaded, no focus timer is armed, the store is empty.
C18_ToggleEmptyStore ==
    ( /\ call.fn = "togglePlayPause"
      /\ StatusOf(call.before) = "Stopped"
      /\ DOMAIN call.before.broadcasts = {} )
        => /\ shown = "Inga sandningar idag annu"
           /\ St = call.before
           /\ Status = "Stopped"
           /\ currentSlot = None
           /\ audioSrc = ""
           /\ audioFocusTimer = NoTimer
           /\ DOMAIN broadcasts = {}

\* C19 (as stated): the 'ended' event leaves no slot current, the controller
\* in the state stopPlayback would have left, and the store as it was, still
\* holding the Broadcast that ended.
C19_EndedResetsSession ==
    call.fn = "ended" =>
        /\ currentSlot = None
        /\ Status = "Stopped"
        /\ St = stopPlayback(call.before)
        /\ broadcasts = call.before.broadcasts
        /\ call.before.currentSlot # None => Has(broadcasts, call.before.currentSlot)

Clamp(x, lo, hi) == IF x < lo THEN lo ELSE IF x > hi THEN hi ELSE x

\* C20: skipTime(seconds) with a source loaded sets the position to
\* clamp(position + seconds, 0, duration), a duration not yet known counting
\* as 0, so that the position is within [0, duration], and changes nothing
\* else; with no source loaded it changes nothing.
C20_SkipClamps ==
    call.fn = "skipTime" =>
        IF call.before.audioSrc # ""
        THEN /\ St = [call.before EXCEPT !.currentTime =
                         Clamp(@ + call.seconds, 0,
                               IF call.before.duration = NaN THEN 0
                               ELSE call.before.duration)]
             /\ currentTime >= 0
             /\ duration # NaN => currentTime <= duration
        ELSE St = call.before

\* C20 witness: a skip forward from inside the source that would have passed
\* its end has set the position to the duration.
C20_Witness ==
    /\ call.fn = "skipTime"
    /\ call.before.audioSrc # ""
    /\ duration # NaN
    /\ call.before.currentTime > 0
    /\ call.before.currentTime + call.seconds > duration
    /\ currentTime = duration

\* C21 (as stated): a seek to a position, from the progress bar or from the
\* media-control seek action, with a source loaded and its duration known,
\* sets the position to clamp(position, 0, duration), also for positions
\* below 0 or above the duration, and changes nothing else; otherwise it
\* changes nothing.
C21_SeekClamps ==
    call.fn \in {"seekTo", "seekto"} =>
        IF /\ call.given
           /\ call.before.audioSrc # ""
           /\ call.before.duration # NaN
        THEN St = [call.before EXCEPT !.currentTime =
                      Clamp(call.position, 0, call.before.duration)]
        ELSE St = call.before

\* The delays calculatePollInterval can return for a store, over the times of
\* day it may be evaluated at.
OrdinaryIntervals(bc) == {calculatePollInterval(m, bc) : m \in ClockSamples}

FetchFailed == shown = "Kunde inte hamta sandningar"

\* C22: a fetch that yields no data (fetchBroadcasts returns null) leaves the
\* store and the stored date unchanged and starts no new fetch; when it was
\* the poll loop's fetch, exactly one poll timer is armed, with a delay that
\* calculatePollInterval gives for the unchanged store; when it was a
\* day-check fetch the timers stay as they were.
C22_FailedFetchKeepsStore ==
    [][(FetchFailed' /\ <<loopFetches, dayFetches>>' # <<loopFetches, dayFetches>>) =>
          /\ broadcasts' = broadcasts
          /\ lastFetchDate' = lastFetchDate
          /\ loopFetches' + dayFetches' = loopFetches + dayFetches - 1
          /\ loopFetches' < loopFetches =>
                 \E t \in timers' :
                     /\ PendingTimers("poll")' = {t}
                     /\ pollTimer' = t.id
                     /\ t.delay \in OrdinaryIntervals(broadcasts)
          /\ dayFetches' < dayFetches => timers' = timers]_vars

\* A poll-loop fetch has just failed with broadcasts in the store: the store
\* is kept and the next poll is armed.
C22_Witness ==
    /\ FetchFailed
    /\ loopFetches = 0
    /\ dayFetches = 0
    /\ Has(broadcasts, "08:00")
    /\ lastFetchDate = today
    /\ \E t \in PendingTimers("poll") : t.delay = POLL_IDLE

\* C23: the poll loop never halts: when every started fetch completes, each
\* firing of the poll timer (and the initial load), which leaves the loop's
\* fetch in flight, is followed by a state with a new poll timer armed,
\* whether or not the fetch failed.
C23_PollLoopNeverHalts ==
    (loopFetches > 0) ~> (loopFetches = 0 /\ PendingTimers("poll") # {})

\* The poll timer has fired (its handle is still stored) and the fetch of that
\* cycle is in flight.
C23_Witness ==
    /\ loopFetches > 0
    /\ pollTimer # NoTimer
    /\ PendingTimers("poll") = {}

\* The poll loop is stopped: no poll timer is pending and no fetch of the
\* loop is in flight (a fetch of the loop that is in flight arms the next
\* timer when it completes, and state holds nothing that would tell its
\* continuation not to).
PollLoopStopped ==
    /\ PendingTimers("poll") = {}
    /\ loopFetches = 0

\* C24 (as stated): the poll scheduler exposes a cancel operation: in every
\* state, also while a fetch of the loop is in flight, some operation of the
\* program can be invoked after which no poll timer is pending and no further
\* poll-triggered fetch starts.
C24_CancelAvailable == ENABLED (Next /\ PollLoopStopped')

\* A step that arms a poll timer.
ArmsPollTimer ==
    /\ PendingTimers("poll")' # {}
    /\ PendingTimers("poll")' # PendingTimers("poll")

\* C25: no poll timer is pending while a fetch of the poll loop is in flight;
\* a poll timer is armed only by the step in which such a fetch completes and
\* its result is merged, and its delay is one calculatePollInterval gives for
\* the store as that step leaves it.
C25_RearmAfterMerge ==
    /\ [](loopFetches > 0 => PendingTimers("poll") = {})
    /\ [][ArmsPollTimer =>
              /\ loopFetches' = loopFetches - 1
              /\ \A t \in PendingTimers("poll")' :
                     t.delay \in OrdinaryIntervals(broadcasts')]_vars

\* A poll cycle has merged the 08:00 broadcast on the second day and armed
\* the next poll with the idle interval the merged store gives.
C25_Witness ==
    /\ loopFetches = 0
    /\ ~FetchFailed
    /\ today = MaxDay
    /\ lastFetchDate = today
    /\ DOMAIN broadcasts = {"08:00"}
    /\ \E t \in PendingTimers("poll") : t.delay = POLL_IDLE /\ pollTimer = t.id

\* What C26 requires of checkDayChange called in state s on the date d.
DayCheckContract(s, d) ==
    LET r == checkDayChange(s, d)
    IN  IF s.lastFetchDate # d
        THEN /\ DayChanged(s, d)
             /\ r.broadcasts = EmptyStore
             /\ StatusOf(r) = "Stopped"
             /\ r.currentSlot = None
             /\ r.audioFocusTimer = NoTimer
             /\ {t \in r.timers : t.kind = "focus"} = {}
             /\ r.lastFetchDate = d
        ELSE /\ ~DayChanged(s, d)
             /\ r = s

\* C26: checkDayChange reports true exactly when the stored date differs from
\* the current date, and then leaves an empty store, playback Stopped with no
\* current slot and no focus timer, and the current date stored; on equal
\* dates it reports false and changes nothing.  The reset happens in the
\* running program only on differing dates, and the day check starts its
\* fetch only after a reset.
C26_DayCheck ==
    /\ [](\A d \in 1..MaxDay : DayCheckContract(St, d))
    /\ [][resetCount' > resetCount =>
              /\ lastFetchDate # today
              /\ lastFetchDate' = today
              /\ broadcasts' = EmptyStore
              /\ Status' = "Stopped"
              /\ currentSlot' = None
              /\ PendingTimers("focus")' = {}]_vars
    /\ [][dayFetches' > dayFetches => resetCount' > resetCount]_vars

\* The once-a-minute day check has found the date changed: it has reset and
\* started its fetch.
C26_Witness ==
    /\ today > 1
    /\ resetCount = 1
    /\ dayFetches = 1
    /\ loopFetches = 0
    /\ lastFetchDate = today
    /\ broadcasts = EmptyStore
    /\ Status = "Stopped"
    /\ PendingTimers("poll") # {}

\* A step in which a fetch cycle starts its fetch.
StartsFetch == loopFetches' > loopFetches \/ dayFetches' > dayFetches

\* C27: in every fetch cycle the day check runs before the fetch and the
\* merge.  The initial load starts with the current date stored; a step that
\* starts a fetch leaves the current date stored, having reset the store when
\* the stored date was another day's and having left it alone otherwise; and
\* the store is changed, other than by a reset, only by the step in which a
\* started fetch completes.
C27_DayCheckBeforeFetch ==
    /\ (loopFetches = 1 /\ dayFetches = 0 /\ lastFetchDate = today)
    /\ [][StartsFetch =>
              /\ lastFetchDate' = today
              /\ lastFetchDate # today =>
                     (resetCount' = resetCount + 1 /\ broadcasts' = EmptyStore)
              /\ lastFetchDate = today =>
                     (resetCount' = resetCount /\ broadcasts' = broadcasts)]_vars
    /\ [][(broadcasts' # broadcasts /\ resetCount' = resetCount) =>
              /\ loopFetches + dayFetches > 0
              /\ loopFetches' + dayFetches' = loopFetches + dayFetches - 1]_vars

\* The poll timer has fired on the second day: its cycle has run the day
\* check, which reset the store, and its fetch is in flight.
C27_Witness ==
    /\ today > 1
    /\ loopFetches = 1
    /\ dayFetches = 0
    /\ resetCount = 1
    /\ lastFetchDate = today
    /\ broadcasts = EmptyStore
    /\ PendingTimers("poll") = {}

\* What the playback operations make of the current state, over their inputs.
PlaybackResults ==
    {playBroadcast(St, slot, accepted) : slot \in SlotTimes, accepted \in BOOLEAN}
    \cup {togglePlayPause(St, accepted) : accepted \in BOOLEAN}
    \cup {mediaSessionPlay(St, accepted) : accepted \in BOOLEAN}
    \cup {mediaSessionPause(St), stopPlayback(St), onEnded(St)}
    \cup {skipTime(St, seconds) : seconds \in SkipDeltas}
    \cup {seekTo(St, pointer) : pointer \in Pointers}
    \cup {mediaSessionSeekTo(St, [action |-> "seekto", seekTime |-> x]) :
              x \in SeekTimes}
    \cup {onAudioFocusTimeout([St EXCEPT !.timers = @ \ {t}]) :
              t \in PendingTimers("focus")}

\* A step of a fetch cycle: a fetch starts or completes.
FetchCycleStep == <<loopFetches, dayFetches>>' # <<loopFetches, dayFetches>>

\* C28: the playback operations (play, pause, resume, toggle, stop, skip,
\* seek, the ended event, focus-timer expiry) leave the store and the stored
\* date as they are, and so does every step of the program that is no step
\* of a fetch cycle; a step of a fetch cycle in which the day has not changed
\* leaves currentSlot, the playback status, the loaded source and the focus
\* timer as they are.
C28_OwnOperationsOnly ==
    /\ [](\A r \in PlaybackResults :
              r.broadcasts = broadcasts /\ r.lastFetchDate = lastFetchDate)
    /\ [][~FetchCycleStep => UNCHANGED <<broadcasts, lastFetchDate>>]_vars
    /\ [][(FetchCycleStep /\ resetCount' = resetCount) =>
              /\ UNCHANGED <<currentSlot, audioSrc, audioPaused, silenceSrc,
                             audioFocusTimer, currentTime, duration>>
              /\ Status' = Status
              /\ PendingTimers("focus")' = PendingTimers("focus")]_vars

\* A fetch has merged a second broadcast while the first one was paused with
\* its focus timer pending.
C28_Witness ==
    /\ Status = "Paused"
    /\ currentSlot = "08:00"
    /\ PendingTimers("focus") # {}
    /\ DOMAIN broadcasts = {"08:00", "12:30"}
    /\ loopFetches = 0
    /\ PendingTimers("poll") # {}

\* C29: for every store content the tile order of getSortedSlots holds each
\* of the four configured slots exactly once, and when findLatestBroadcast
\* returns a slot that slot is the first of the order (the top-left tile).
C29_TileOrderPermutation ==
    LET order == getSortedSlots(broadcasts)
        latest == findLatestBroadcast(broadcasts)
    IN  /\ Len(order) = Len(SLOTS)
        /\ \A slot \in SlotTimes :
               Cardinality({i \in 1..Len(order) : order[i] = slot}) = 1
        /\ latest # None => order[1] = latest

\* A merge has left the 16:45 broadcast as the latest of three: the ring is
\* rotated to start at it.
C29_Witness ==
    /\ call.fn = "merge"
    /\ DOMAIN broadcasts = {"08:00", "12:30", "16:45"}
    /\ findLatestBroadcast(broadcasts) = "16:45"
    /\ getSortedSlots(broadcasts) = <<"16:45", "12:30", "17:45", "08:00">>

\* The Broadcast parsing makes of a feed item.
BroadcastOf(item) ==
    [title |-> item.title, timestamp |-> item.publishdateutc, audioUrl |-> item.url]

\* The item is from the current local day.
FromToday(item) == srDateToStockholmDate(item.publishdateutc) = today

\* C30: the mapping parsed from a response holds a Broadcast for a slot only
\* if the response lists an item from the current local day whose title names
\* that slot, and this Broadcast carries that item's title, timestamp and
\* audioUrl; items of other days or naming no slot produce nothing, and every
\* item from today that names a slot produces a Broadcast.
C30_ParsedFromTodaysItems ==
    call.fn = "parseApiResponse" =>
        /\ \A slot \in DOMAIN call.result :
               /\ slot \in SlotTimes
               /\ \E i \in 1..Len(call.podfiles) :
                      /\ FromToday(call.podfiles[i])
                      /\ includes(call.podfiles[i].title, slot)
                      /\ call.result[slot] = BroadcastOf(call.podfiles[i])
        /\ \A i \in 1..Len(call.podfiles) :
               FromToday(call.podfiles[i]) =>
                   \A slot \in SlotTimes :
                       includes(call.podfiles[i].title, slot) =>
                           \E other \in SlotTimes :
                               /\ includes(call.podfiles[i].title, other)
                               /\ Has(call.result, other)
        /\ broadcasts = call.result

\* A response with an item of the day before naming 08:00 and an item of
\* today naming 12:30 has been parsed: only the second produced a Broadcast.
C30_Witness ==
    /\ call.fn = "parseApiResponse"
    /\ call.podfiles = <<[title |-> TitleOf("08:00"), publishdateutc |-> TsPerDay - 1,
                          url |-> "a.mp3"],
                         [title |-> TitleOf("12:30"), publishdateutc |-> TsPerDay,
                          url |-> "a.mp3"]>>
    /\ DOMAIN broadcasts = {"12:30"}
    /\ broadcasts["12:30"].timestamp = TsPerDay

\* C31 (as stated): the silence channel has a source only while the status
\* is Paused (while Playing or Stopped it has none), and it has a source
\* exactly when the focus timer is armed.
C31_SilenceOnlyWhilePaused ==
    /\ silenceSrc # "" => Status = "Paused"
    /\ silenceSrc # "" <=> FocusTimerArmed

\* A broadcast is expected: the clock is within the active window of a slot
\* whose Broadcast is absent.
BroadcastExpected ==
    \E i \in SlotIdx :
        /\ ~Has(broadcasts, SLOTS[i].time)
        /\ clock - PollStartMinutes(i) >= 0
        /\ clock - PollStartMinutes(i) <= ACTIVE_WINDOW

\* C32 (as stated): whenever a broadcast is expected and no fetch is in
\* flight, the pending poll timer fires within the ACTIVE interval, also when
\* it was armed before the window opened.
C32_ActivePollingWhenExpected ==
    (BroadcastExpected /\ loopFetches = 0) =>
        \E t \in PendingTimers("poll") : t.delay <= POLL_ACTIVE

\* C33 (as stated): every Broadcast in the store was published on the local
\* day that is the stored date, whatever the interleaving of fetches with the
\* day boundary.
C33_StoreHoldsStoredDay ==
    \A t \in DOMAIN broadcasts :
        srDateToStockholmDate(broadcasts[t].timestamp) = lastFetchDate

\* C34: between two day resets the set of slots present in the store never
\* shrinks: every step other than a day reset keeps each slot that is
\* present, also a merge of a response that no longer lists it.
C34_StoreNeverShrinks ==
    [][resetCount' # resetCount + 1 =>
          DOMAIN broadcasts \subseteq DOMAIN broadcasts']_vars

\* After the reset for day 2 the store has filled up again, merge by merge,
\* with the broadcasts of that day.
C34_Witness ==
    /\ today = MaxDay
    /\ resetCount = 1
    /\ lastFetchDate = today
    /\ DOMAIN broadcasts = SlotTimes
    /\ \A t \in SlotTimes : srDateToStockholmDate(broadcasts[t].timestamp) = today
    /\ loopFetches = 0
    /\ dayFetches = 0

\* C35 (as stated): whenever the audio element is playing a slot is current;
\* no sequence of ended, toggle and media-control play makes audio play while
\* currentSlot is none.
C35_PlayingHasCurrentSlot ==
    ~audioPaused => currentSlot # None

\* C36: after an 'error' event of the audio element, in whatever state it
\* arrives, the status is Stopped with no current slot, no source loaded and
\* the focus timer cancelled (the silence channel released), the error is
\* reported, and the store is as it was.
C36_ErrorStops ==
    call.fn = "error" =>
        /\ Status = "Stopped"
        /\ currentSlot = None
        /\ audioSrc = ""
        /\ audioPaused
        /\ audioFocusTimer = NoTimer
        /\ PendingTimers("focus") = {}
        /\ silenceSrc = ""
        /\ shown = "Fel vid uppspelning"
        /\ broadcasts = call.before.broadcasts
        /\ lastFetchDate = call.before.lastFetchDate

\* The error arrived while Paused with the focus timer armed.
C36_Witness ==
    /\ call.fn = "error"
    /\ StatusOf(call.before) = "Paused"
    /\ call.before.audioFocusTimer # NoTimer
    /\ \E t \in call.before.timers : t.kind = "focus"
    /\ DOMAIN broadcasts # {}
    /\ Status = "Stopped"

\* The first slot, in configured order, whose label the title includes.
FirstConfigured(title) ==
    LET hits == {i \in SlotIdx : includes(title, SLOTS[i].time)}
    IN  IF hits = {} THEN None
        ELSE SLOTS[CHOOSE i \in hits : \A j \in hits : i <= j].time

\* The places in the feed of today's items that map to the slot.
ItemsOf(podfiles, slot) ==
    {i \in 1..Len(podfiles) : /\ FromToday(podfiles[i])
                              /\ extractSlotFromTitle(podfiles[i].title) = slot}

\* C37: extractSlotFromTitle maps a title to the first slot label, in
\* configured order, that occurs in it, and to none when no label occurs;
\* when several items of the current day map to the same slot, the Broadcast
\* kept for the slot is the one of the item latest in feed order.
C37_FirstLabelLatestItem ==
    call.fn = "parseApiResponse" =>
        /\ \A i \in 1..Len(call.podfiles) :
               extractSlotFromTitle(call.podfiles[i].title)
                   = FirstConfigured(call.podfiles[i].title)
        /\ \A slot \in SlotTimes :
               LET items == ItemsOf(call.podfiles, slot)
               IN  IF items = {} THEN ~Has(call.result, slot)
                   ELSE /\ Has(call.result, slot)
                        /\ call.result[slot] = BroadcastOf(
                               call.podfiles[CHOOSE i \in items :
                                                 \A j \in items : j <= i])

\* Two items of today map to 08:00, the first by a title that names 12:30
\* before 08:00: the Broadcast kept is the second item's, and no Broadcast
\* is made for 12:30.
C37_Witness ==
    /\ call.fn = "parseApiResponse"
    /\ call.podfiles = <<[title |-> <<"12:30", "08:00">>,
                          publishdateutc |-> TsPerDay, url |-> "a.mp3"],
                         [title |-> TitleOf("08:00"),
                          publishdateutc |-> 2 * TsPerDay - 1, url |-> ""]>>
    /\ DOMAIN broadcasts = {"08:00"}
    /\ broadcasts["08:00"] = [title |-> TitleOf("08:00"),
                              timestamp |-> 2 * TsPerDay - 1, audioUrl |-> ""]

\* What caches.match had to return for the key from those caches.
Matching(caches, key) ==
    IF CacheMatches(caches, key) = {} THEN {NoResponse}
    ELSE CacheMatches(caches, key)

\* The latest request was answered as C38 requires, given the caches as they
\* were when it arrived.
AnsweredAsRequired(l) ==
    IF l.host = "api.sr.se"
    THEN /\ l.outcome.kind = "ok" =>
                (l.source = "network" /\ l.response = l.outcome.body)
         /\ l.source = "cache" <=> l.outcome.kind = "fail"
         /\ l.outcome.kind = "fail" =>
                l.response \in Matching(l.caches, "sr-api-latest")
    ELSE IF l.host = "static-cdn.sr.se"
    THEN l.source = "network"
    ELSE CacheMatches(l.caches, l.key) # {} =>
            (l.source = "cache" /\ l.response \in CacheMatches(l.caches, l.key))

\* A step in which the worker answers a request of that host.
Answers(host) ==
    /\ worker'.last # worker.last
    /\ worker'.last.host = host

\* C38: once activation has completed no cache other than CACHE_NAME exists;
\* an API request is answered network-first (an OK network response is
\* returned and its storing under 'sr-api-latest' is started, and the stored
\* response is returned only when the network request fails); a request to
\* static-cdn.sr.se is answered from the network and nothing of it is ever
\* written to a cache; any other request is answered from the cache when a
\* cached entry exists; a cache write that settles stores the response in the
\* current cache.
C38_WorkerCaching ==
    /\ [](worker.phase = "active" => DOMAIN worker.caches \subseteq {CACHE_NAME})
    /\ [](worker.last # NoRequest => AnsweredAsRequired(worker.last))
    /\ [](\A n \in DOMAIN worker.caches : "ekot.mp3" \notin DOMAIN worker.caches[n])
    /\ [][(Answers("api.sr.se") /\ worker'.last.outcome.kind = "ok") =>
              [key |-> "sr-api-latest", body |-> worker'.last.response]
                  \in worker'.puts]_vars
    /\ [][Answers("static-cdn.sr.se") =>
              (worker'.puts = worker.puts /\ worker'.caches = worker.caches)]_vars
    /\ [][\A put \in worker.puts \ worker'.puts :
              /\ CACHE_NAME \in DOMAIN worker'.caches
              /\ put.key \in DOMAIN worker'.caches[CACHE_NAME]
              /\ worker'.caches[CACHE_NAME][put.key] = put.body]_vars

\* The worker is active with the old cache deleted; an API response has been
\* stored and, the network failing, was returned for the latest API request.
C38_Witness ==
    /\ worker.phase = "active"
    /\ DOMAIN worker.caches = {CACHE_NAME}
    /\ worker.last # NoRequest
    /\ worker.last.host = "api.sr.se"
    /\ worker.last.outcome.kind = "fail"
    /\ worker.last.source = "cache"
    /\ worker.last.response = "fresh"

\* The path lies in the server's own directory.
InServerDir(filePath) ==
    /\ Len(filePath) >= Len(DirName)
    /\ SubSeq(filePath, 1, Len(DirName)) = DirName

\* C39 (as stated): a request whose path resolves outside the server's own
\* directory, also into a sibling directory whose name begins with the
\* server directory's name, is answered with 403, and no file outside the
\* server's directory is read.
C39_NoTraversal ==
    call.fn = "handleRequest" =>
        /\ ~InServerDir(pathJoin(DirName, call.url)) => call.answer.status = 403
        /\ \A file \in call.answer.read : InServerDir(file)

====
